---------------------------- MODULE Spec2Model ----------------------------
(***************************************************************************)
(* Model of src/api/main.py (CodeDoc Analyzer API): the chunker            *)
(* basic_chunk, the retriever pick_top_k, the fact flattener               *)
(* flatten_semantic_json and the request handler analyze.                  *)
(*                                                                         *)
(* A Python str is a sequence of one-character strings.  A fixed literal   *)
(* of the source that no operation looks inside (the prompt's preamble,    *)
(* its markers, its task list) is kept as one element of such a sequence.  *)
(***************************************************************************)
EXTENDS Integers, Sequences, FiniteSets, TLC

VARIABLES
    re_strict,    \* TRUE: the interpreter's re module rejects a global flag
                  \* that is not at the start of a pattern (CPython >= 3.11);
                  \* FALSE: it accepts it with a DeprecationWarning
    text,         \* basic_chunk: its text argument
    max_chars,    \* basic_chunk: its max_chars argument
    chunked,      \* basic_chunk: its outcome
    query_text,   \* pick_top_k: its query_text argument
    doc_texts,    \* pick_top_k: its doc_texts argument
    k,            \* pick_top_k: its k argument
    picked,       \* pick_top_k: its outcome
    data,         \* flatten_semantic_json: the parsed JSON document
    flat,         \* flatten_semantic_json: its outcome
    extra_docs,   \* analyze: the uploads (None reads like the empty list)
    pc,           \* analyze: the handler's position
    sem_text,     \* analyze: local sem_text
    doc_chunks,   \* analyze: local doc_chunks
    selected,     \* analyze: local selected
    prompt,       \* analyze: local prompt
    response,     \* analyze: the HTTP response, once there is one
    trace         \* analyze: the steps completed so far, in order

chunkVars   == <<text, max_chars, chunked>>
topkVars    == <<query_text, doc_texts, k, picked>>
flatVars    == <<data, flat>>
analyzeVars == <<extra_docs, pc, sem_text, doc_chunks, selected, prompt, response, trace>>
vars == <<re_strict, chunkVars, topkVars, flatVars, analyzeVars>>

----------------------------------------------------------------------------
(* Bounds of the model *)

MaxPieces == 5      \* a text is a concatenation of at most this many pieces
MaxChars  == 5      \* max_chars ranges over 0 .. MaxChars
MaxDocs   == 3      \* pick_top_k is given at most this many candidates
MaxK      == 3      \* k ranges over -1 .. MaxK
MaxRecords == 2     \* a parsed JSON array holds at most this many elements
MaxUploads == 2     \* a request carries at most this many extra documents

----------------------------------------------------------------------------
(* Outcomes of a call *)

NotCalled    == [status |-> "idle",  value |-> <<>>, exc |-> ""]   \* no call in this run
NoResult     == [status |-> "none",  value |-> <<>>, exc |-> ""]   \* called, not yet returned
Returned(v)  == [status |-> "ok",    value |-> v,    exc |-> ""]
Raised(e)    == [status |-> "raise", value |-> <<>>, exc |-> e]

\* an HTTP response: its status code (0: none yet) and its detail
NoResponse          == [code |-> 0, detail |-> ""]
HttpError(c, d)     == [code |-> c, detail |-> d]
JsonMarkdown        == [code |-> 200, detail |-> "markdown"]

----------------------------------------------------------------------------
(* Strings *)

Min(a, b) == IF a <= b THEN a ELSE b
Max(a, b) == IF a >= b THEN a ELSE b

NL == "\n"

\* str.isspace of one character, and what \s matches
IsSpace(c) == c \in {" ", NL}

\* str.lstrip / str.rstrip / str.strip with no argument
RECURSIVE LStrip(_)
LStrip(s) == IF s # <<>> /\ IsSpace(Head(s)) THEN LStrip(Tail(s)) ELSE s

RECURSIVE RStrip(_)
RStrip(s) ==
    IF s # <<>> /\ IsSpace(s[Len(s)]) THEN RStrip(SubSeq(s, 1, Len(s) - 1)) ELSE s

Strip(s) == RStrip(LStrip(s))

\* the number of consecutive characters c of t from position p on
RECURSIVE RunLen(_, _, _)
RunLen(t, p, c) ==
    IF p <= Len(t) /\ t[p] = c THEN 1 + RunLen(t, p + 1, c) ELSE 0

----------------------------------------------------------------------------
(* basic_chunk: re.split(r"\n{2,}|(?m)^#+\s", text) *)

\* (?m)^ : at the start of the string or right after a newline
AtLineStart(t, p) == p = 1 \/ t[p - 1] = NL

\* The length of the pattern's match starting at position p, 0 for none.
\* \n{2,} is tried first and is greedy; ^#+\s takes the whole run of # and
\* needs one whitespace character after it (giving back a # never helps,
\* the character after a shorter run is a #).
MatchLen(t, p) ==
    LET nls == RunLen(t, p, NL)
        hs  == RunLen(t, p, "#")
    IN  IF nls >= 2 THEN nls
        ELSE IF /\ AtLineStart(t, p)
                /\ hs >= 1
                /\ p + hs <= Len(t)
                /\ IsSpace(t[p + hs])
             THEN hs + 1
             ELSE 0

\* re.split with no capture group: the text between the matches, searched
\* leftmost first from the end of the previous match.
RECURSIVE SplitFrom(_, _, _)
SplitFrom(t, last, p) ==
    IF p > Len(t) THEN << SubSeq(t, last, Len(t)) >>
    ELSE LET m == MatchLen(t, p)
         IN  IF m > 0
             THEN << SubSeq(t, last, p - 1) >> \o SplitFrom(t, p + m, p + m)
             ELSE SplitFrom(t, last, p + 1)

ReSplit(t) == SplitFrom(t, 1, 1)

\* The two-character separator "\n\n" put between packed parts
Separator == << NL, NL >>

\* a slip: the separator's two characters are not counted
Fits_NoSeparator(buf, part, M) == Len(buf) + Len(part) <= M

\* line 53: len(buf) + len(part) + 2 <= max_chars
Fits(buf, part, M) == Len(buf) + Len(part) + 2 <= M

\* a slip: the parts are glued together with no separator
AppendPart_Glued(buf, part) == buf \o part

\* line 54: buf += ("\n\n" + part) if buf else part
AppendPart(buf, part) == IF buf # <<>> THEN buf \o Separator \o part ELSE part

\* lines 51-58.  A buffer is [s |-> its text, u |-> the indices of the parts
\* appended to it]; u is bookkeeping of the model, the code keeps s only.
RECURSIVE PackLoop(_, _, _, _, _)
PackLoop(parts, i, out, buf, M) ==
    IF i > Len(parts)
    THEN IF buf.s # <<>> THEN out \o <<buf>> ELSE out
    ELSE LET part == parts[i]
         IN  IF Fits(buf.s, part, M)
             THEN PackLoop(parts, i + 1, out,
                           [s |-> AppendPart(buf.s, part), u |-> buf.u \o <<i>>], M)
             ELSE PackLoop(parts, i + 1,
                           IF buf.s # <<>> THEN out \o <<buf>> ELSE out,
                           [s |-> part, u |-> <<i>>], M)

Packed(parts, M) == PackLoop(parts, 1, <<>>, [s |-> <<>>, u |-> <<>>], M)

\* line 59: [c.strip() for c in out if c.strip()]
StripNonEmpty(out) ==
    LET kept == SelectSeq(out, LAMBDA c : Strip(c.s) # <<>>)
    IN  [i \in 1 .. Len(kept) |-> [s |-> Strip(kept[i].s), u |-> kept[i].u]]

\* the segments basic_chunk returns, each with the parts it was packed from
Segments(t, M) == StripNonEmpty(Packed(ReSplit(t), M))

TextsOf(segs) == [i \in 1 .. Len(segs) |-> segs[i].s]

\* lines 49-59
basic_chunk(t, M, strict) ==
    IF strict THEN Raised("re.error")
    ELSE Returned(TextsOf(Segments(t, M)))

----------------------------------------------------------------------------
(* The inputs of basic_chunk *)

\* what a text is made of: a word character, a long word, a blank-line run,
\* a line break, a heading marker (a # and a space, which is one only at the
\* start of a line)
Pieces ==
    { <<"a">>, <<"a", "a", "a", "a", "a">>, <<NL, NL>>, <<NL>>, <<"#", " ">> }

RECURSIVE Concat(_)
Concat(ps) == IF ps = <<>> THEN <<>> ELSE Head(ps) \o Concat(Tail(ps))

RECURSIVE SeqsUpTo(_, _)
SeqsUpTo(S, n) ==
    IF n = 0 THEN { <<>> }
    ELSE LET shorter == SeqsUpTo(S, n - 1)
         IN  shorter \cup { Append(q, x) : q \in shorter, x \in S }

Texts == { Concat(ps) : ps \in SeqsUpTo(Pieces, MaxPieces) }

IdleChunk   == text = <<>> /\ max_chars = 0 /\ chunked = NotCalled
IdleTopK    == query_text = <<>> /\ doc_texts = <<>> /\ k = 0 /\ picked = NotCalled
IdleFlatten == data = [t |-> "null", items |-> <<>>] /\ flat = NotCalled
IdleAnalyze ==
    /\ extra_docs = <<>> /\ pc = "idle" /\ sem_text = <<>> /\ doc_chunks = <<>>
    /\ selected = <<>> /\ prompt = <<>> /\ response = NoResponse /\ trace = <<>>

InitChunk ==
    /\ re_strict \in BOOLEAN
    /\ text \in Texts
    /\ max_chars \in 0 .. MaxChars
    /\ chunked = NoResult
    /\ IdleTopK /\ IdleFlatten /\ IdleAnalyze

\* one call basic_chunk(text, max_chars)
Chunk ==
    /\ chunked = NoResult
    /\ chunked' = basic_chunk(text, max_chars, re_strict)
    /\ UNCHANGED <<re_strict, text, max_chars, topkVars, flatVars, analyzeVars>>

SpecChunk == InitChunk /\ [][Chunk]_vars

----------------------------------------------------------------------------
(* Claims about basic_chunk *)

ChunkOk == chunked.status = "ok" /\ max_chars > 0

\* C1: every segment basic_chunk(T, M) returns, M > 0, has length <= M unless
\* it was made of exactly one unit whose own length exceeds M; a segment
\* packed from two or more units never exceeds M.
C1_SegmentBound ==
    ChunkOk =>
        LET parts == ReSplit(text)
            segs  == Segments(text, max_chars)
        IN  /\ chunked.value = TextsOf(segs)
            /\ \A i \in 1 .. Len(segs) :
                   \/ Len(chunked.value[i]) <= max_chars
                   \/ /\ Len(segs[i].u) = 1
                      /\ Len(parts[segs[i].u[1]]) > max_chars

\* a call that returned a segment packed from two units that fills the
\* bound exactly, and a segment that is one unit longer than the bound
C1_Witness ==
    /\ ChunkOk
    /\ LET segs == Segments(text, max_chars)
       IN  /\ \E i \in 1 .. Len(segs) :
                  Len(segs[i].u) = 2 /\ Len(chunked.value[i]) = max_chars
           /\ \E i \in 1 .. Len(segs) :
                  Len(segs[i].u) = 1 /\ Len(chunked.value[i]) > max_chars

\* The packer as the specification words it: the separator counts only when
\* the buffer is non-empty; a unit that does not fit flushes the buffer.
RefFits(buf, unit, M) ==
    Len(buf) + Len(unit) + (IF buf # <<>> THEN 2 ELSE 0) <= M

RECURSIVE RefPack(_, _, _, _, _)
RefPack(units, i, out, buf, M) ==
    IF i > Len(units)
    THEN IF buf # <<>> THEN out \o <<buf>> ELSE out
    ELSE IF RefFits(buf, units[i], M)
         THEN RefPack(units, i + 1, out,
                      IF buf = <<>> THEN units[i] ELSE buf \o <<NL, NL>> \o units[i], M)
         ELSE RefPack(units, i + 1, out \o <<buf>>, units[i], M)

RefChunk(units, M) ==
    LET trimmed == [i \in 1 .. Len(RefPack(units, 1, <<>>, <<>>, M)) |->
                        Strip(RefPack(units, 1, <<>>, <<>>, M)[i])]
    IN  SelectSeq(trimmed, LAMBDA c : c # <<>>)

\* the units of a buffer joined by the separator, empty units at its head
\* (taken while the buffer was still empty) leaving no trace
RECURSIVE JoinUnits(_, _)
JoinUnits(parts, u) ==
    IF u = <<>> THEN <<>>
    ELSE LET front == JoinUnits(parts, SubSeq(u, 1, Len(u) - 1))
             last  == parts[u[Len(u)]]
         IN  IF front = <<>> THEN last ELSE front \o <<NL, NL>> \o last

\* C9: for M > 0 the packing loop yields the segments of the specification's
\* greedy packer; units keep their order, every non-empty unit lands whole
\* in exactly one buffer, and a unit longer than M is a buffer of its own.
C9_GreedyPacking ==
    ChunkOk =>
        LET parts == ReSplit(text)
            out   == Packed(parts, max_chars)
            us    == Concat([i \in 1 .. Len(out) |-> out[i].u])
        IN  /\ chunked.value = RefChunk(parts, max_chars)
            /\ \A i \in 1 .. Len(out) : out[i].s = JoinUnits(parts, out[i].u)
            /\ \A i, j \in 1 .. Len(us) : i < j => us[i] < us[j]
            /\ \A n \in 1 .. Len(parts) :
                   parts[n] # <<>> => \E i \in 1 .. Len(us) : us[i] = n
            /\ \A n \in 1 .. Len(parts) :
                   Len(parts[n]) > max_chars =>
                       \E i \in 1 .. Len(out) : out[i].u = <<n>> /\ out[i].s = parts[n]

\* a call on three or more units where a buffer of two units was flushed
\* because the next unit did not fit, that unit being longer than the bound
C9_Witness ==
    /\ ChunkOk
    /\ LET parts == ReSplit(text)
           out   == Packed(parts, max_chars)
       IN  /\ Len(parts) >= 3
           /\ \E i \in 1 .. Len(out) - 1 :
                  /\ Len(out[i].u) = 2
                  /\ Len(out[i + 1].u) = 1
                  /\ Len(out[i + 1].s) > max_chars
           /\ \A n \in 1 .. Len(parts) : parts[n] # <<>>
           /\ Len(chunked.value) = Len(out)

----------------------------------------------------------------------------
(* pick_top_k *)

UpperCase ==
    << "A", "B", "C", "D", "E", "F", "G", "H", "I", "J", "K", "L", "M",
       "N", "O", "P", "Q", "R", "S", "T", "U", "V", "W", "X", "Y", "Z" >>
LowerCase ==
    << "a", "b", "c", "d", "e", "f", "g", "h", "i", "j", "k", "l", "m",
       "n", "o", "p", "q", "r", "s", "t", "u", "v", "w", "x", "y", "z" >>
Digits == { "0", "1", "2", "3", "4", "5", "6", "7", "8", "9" }

\* str.lower
UpperSet == { UpperCase[i] : i \in 1 .. Len(UpperCase) }
LowerSet == { LowerCase[i] : i \in 1 .. Len(LowerCase) }
LowerOf  == [c \in UpperSet |-> LowerCase[CHOOSE i \in 1 .. Len(UpperCase) : UpperCase[i] = c]]

LowerChar(c) == IF c \in UpperSet THEN LowerOf[c] ELSE c

Lower(t) == [i \in 1 .. Len(t) |-> LowerChar(t[i])]

\* what \w matches
WordChars == LowerSet \cup UpperSet \cup Digits \cup { "_" }
IsWord(c) == c \in WordChars

\* the least length of a token: the 3 of \w{3,}
MinTokenLen == 3

\* the maximal runs of word characters of t that are at least n long, as
\* (first, last) positions
WordRuns(t, n) ==
    { r \in (1 .. Len(t)) \X (1 .. Len(t)) :
         /\ r[2] - r[1] + 1 >= n
         /\ \A i \in r[1] .. r[2] : IsWord(t[i])
         /\ r[1] = 1 \/ ~IsWord(t[r[1] - 1])
         /\ r[2] = Len(t) \/ ~IsWord(t[r[2] + 1]) }

\* set(re.findall(r"\b\w{3,}\b", t)): \b holds at both ends of a run of word
\* characters and nowhere inside it, and \w{3,} is greedy, so the matches
\* are the maximal runs of at least three word characters
Terms(t) == { SubSeq(t, r[1], r[2]) : r \in WordRuns(t, MinTokenLen) }

\* lines 64, 67, 68: len(q_terms & terms)
Overlap(q_terms, t) == Cardinality(q_terms \cap Terms(Lower(t)))

Score(q, t) == Overlap(Terms(Lower(q)), t)

\* lines 64-69.  pos, the candidate's place in doc_texts, is bookkeeping of
\* the model; the code keeps (score, t).
ScoredList(q, docs) ==
    LET q_terms == Terms(Lower(q))
    IN  [i \in 1 .. Len(docs) |->
            [score |-> Overlap(q_terms, docs[i]), t |-> docs[i], pos |-> i]]

\* a slip: an equal score goes in front (what sorting ascending and
\* reversing the list gives)
InsertDesc_Unstable(sorted, x) ==
    LET before == { j \in 1 .. Len(sorted) : sorted[j].score > x.score }
        n == Cardinality(before)
    IN  SubSeq(sorted, 1, n) \o <<x>> \o SubSeq(sorted, n + 1, Len(sorted))

\* x put into a list sorted by score descending, behind every element whose
\* score is at least its own
InsertDesc(sorted, x) ==
    LET before == { j \in 1 .. Len(sorted) : sorted[j].score >= x.score }
        n == Cardinality(before)
    IN  SubSeq(sorted, 1, n) \o <<x>> \o SubSeq(sorted, n + 1, Len(sorted))

\* line 70: scored.sort(key=lambda x: x[0], reverse=True); list.sort is
\* stable, with reverse=True too
RECURSIVE SortDesc(_)
SortDesc(scored) ==
    IF scored = <<>> THEN <<>>
    ELSE InsertDesc(SortDesc(SubSeq(scored, 1, Len(scored) - 1)), scored[Len(scored)])

\* a slip: scored[:k + 1]
SlicePrefix_OneMore(s, n) ==
    IF n + 1 >= 0 THEN SubSeq(s, 1, Min(n + 1, Len(s)))
    ELSE SubSeq(s, 1, Max(Len(s) + n + 1, 0))

\* line 71: scored[:k]; a negative k counts from the end
SlicePrefix(s, n) ==
    IF n >= 0 THEN SubSeq(s, 1, Min(n, Len(s)))
    ELSE SubSeq(s, 1, Max(Len(s) + n, 0))

\* scored[:k] after the sort
Ranked(q, docs, n) == SlicePrefix(SortDesc(ScoredList(q, docs)), n)

\* lines 61-71
pick_top_k(q, docs, n) ==
    LET top == Ranked(q, docs, n)
    IN  Returned([i \in 1 .. Len(top) |-> top[i].t])

----------------------------------------------------------------------------
(* The inputs of pick_top_k *)

Queries ==
    { << "a", "a", "a", " ", "b", "b", "b" >>,
      << "B", "B", "B", "-", "a", "b" >> }

Candidates ==
    { << "a", "a", "a" >>,
      << "A", "A", "A", " ", "a", "a", "a" >>,
      << "a", "b", " ", "b", "b", "b", ".", "a", "a", "a" >>,
      << "a", "b" >>,
      << "b", "b", "b", "b" >> }

InitTopK ==
    /\ re_strict \in BOOLEAN
    /\ query_text \in Queries
    /\ doc_texts \in SeqsUpTo(Candidates, MaxDocs)
    /\ k \in -1 .. MaxK
    /\ picked = NoResult
    /\ IdleChunk /\ IdleFlatten /\ IdleAnalyze

\* one call pick_top_k(query_text, doc_texts, k)
PickTopK ==
    /\ picked = NoResult
    /\ picked' = pick_top_k(query_text, doc_texts, k)
    /\ UNCHANGED <<re_strict, query_text, doc_texts, k, chunkVars, flatVars, analyzeVars>>

SpecTopK == InitTopK /\ [][PickTopK]_vars

----------------------------------------------------------------------------
(* Claims about pick_top_k *)

TopKOk == picked.status = "ok" /\ k > 0

Injective(f) == \A i, j \in DOMAIN f : i # j => f[i] # f[j]

\* C2: for k > 0 pick_top_k returns exactly min(k, len(C)) items, each an
\* element of C taken at a position of its own; nothing for an empty C.
C2_TopKCount ==
    TopKOk =>
        LET out == picked.value
            n   == Len(doc_texts)
        IN  /\ Len(out) = Min(k, n)
            /\ \E f \in [1 .. Len(out) -> 1 .. n] :
                   Injective(f) /\ \A i \in 1 .. Len(out) : out[i] = doc_texts[f[i]]
            /\ n = 0 => out = <<>>

\* a call with more candidates than k, two of them the same text, that
\* returned k of them
C2_Witness ==
    /\ TopKOk
    /\ k >= 2
    /\ Len(doc_texts) > k
    /\ Len(picked.value) = k
    /\ \E i, j \in 1 .. Len(doc_texts) : i # j /\ doc_texts[i] = doc_texts[j]

\* C3: the output is ordered by score descending, the score being the number
\* of distinct lowercase tokens of three or more word characters shared with
\* the query; returned candidates of equal score keep their input order, and
\* no candidate left out scores higher than a returned one.
C3_StableOrder ==
    TopKOk =>
        LET out == picked.value
            n   == Len(doc_texts)
            S(t) == Score(query_text, t)
        IN  \E f \in [1 .. Len(out) -> 1 .. n] :
               /\ Injective(f)
               /\ \A i \in 1 .. Len(out) : out[i] = doc_texts[f[i]]
               /\ \A i, j \in 1 .. Len(out) :
                      i < j => /\ S(out[i]) >= S(out[j])
                               /\ S(out[i]) = S(out[j]) => f[i] < f[j]
               /\ \A p \in 1 .. n :
                      (\A i \in 1 .. Len(out) : f[i] # p) =>
                          \A i \in 1 .. Len(out) : S(doc_texts[p]) <= S(out[i])

\* a call whose best candidate was not the first one given, that returned
\* two different candidates of equal positive score and left one out
C3_Witness ==
    /\ TopKOk
    /\ Len(picked.value) < Len(doc_texts)
    /\ picked.value[1] # doc_texts[1]
    /\ \E i, j \in 1 .. Len(picked.value) :
          /\ i < j
          /\ picked.value[i] # picked.value[j]
          /\ Score(query_text, picked.value[i]) = Score(query_text, picked.value[j])
          /\ Score(query_text, picked.value[i]) > 0

----------------------------------------------------------------------------
(* The chunker and the retriever together *)

InitCore == InitChunk \/ InitTopK
NextCore == Chunk \/ PickTopK
SpecCore == InitCore /\ [][NextCore]_vars

Called(r) == r.status \in { "ok", "raise" }

\* C4: a call of the chunker with max_chars <= 0, or of the retriever with
\* k <= 0, fails with InvalidConfiguration and returns nothing.
C4_FailFast ==
    /\ Called(chunked) /\ max_chars <= 0 => chunked = Raised("InvalidConfiguration")
    /\ Called(picked) /\ k <= 0 => picked = Raised("InvalidConfiguration")

\* C7: with max_chars > 0 the chunker returns, and with k > 0 the retriever
\* returns; neither raises.
C7_NeverFail ==
    /\ Called(chunked) /\ max_chars > 0 => chunked.status = "ok"
    /\ Called(picked) /\ k > 0 => picked.status = "ok"

----------------------------------------------------------------------------
(* flatten_semantic_json *)

\* A parsed JSON value: t is its kind, s its text (a string's characters, a
\* number's digits), a its elements (a list's values, an object's keys).
\* "missing" stands for a key the object does not have.
Missing   == [t |-> "missing", s |-> <<>>, a |-> <<>>]
JNull     == [t |-> "null", s |-> <<>>, a |-> <<>>]
JStr(str) == [t |-> "str",  s |-> str,  a |-> <<>>]
JNum(ds)  == [t |-> "num",  s |-> ds,   a |-> <<>>]
JList(vs) == [t |-> "list", s |-> <<>>, a |-> vs]
JObj(ks)  == [t |-> "obj",  s |-> <<>>, a |-> ks]

\* An element of the top-level value: an object with the five keys the code
\* reads (each possibly missing), or a value of another kind.
Item(p, f, cl, me, co) ==
    [t |-> "obj", Project |-> p, File |-> f, Classes |-> cl, Methods |-> me, Comments |-> co]
NonObject(kind) ==
    [t |-> kind, Project |-> Missing, File |-> Missing, Classes |-> Missing,
     Methods |-> Missing, Comments |-> Missing]

\* The top-level value: items is what `for item in data` yields (a list's
\* elements, an object's keys, a string's characters).
Doc(kind, its) == [t |-> kind, items |-> its]

ProjectLabel  == << "P", "r", "o", "j", "e", "c", "t", ":", " " >>
FileLabel     == << "F", "i", "l", "e", ":", " " >>
ClassesLabel  == << " ", " ", "C", "l", "a", "s", "s", "e", "s", ":", " " >>
MethodsLabel  == << " ", " ", "M", "e", "t", "h", "o", "d", "s", ":", " " >>
CommentsLabel == << " ", " ", "C", "o", "m", "m", "e", "n", "t", "s", ":", " " >>
CommaSep      == << ",", " " >>
PipeSep       == << " ", "|", " " >>

\* sep.join(strs)
RECURSIVE Join(_, _)
Join(sep, strs) ==
    IF strs = <<>> THEN <<>>
    ELSE IF Len(strs) = 1 THEN strs[1]
    ELSE strs[1] \o sep \o Join(sep, Tail(strs))

\* lines 38-39: what the f-string prints for item.get(key, '')
Format(v) ==
    CASE v.t = "missing" -> <<>>
      [] v.t = "null"    -> << "N", "o", "n", "e" >>
      [] OTHER           -> v.s

\* bool(v): what `item.get(key) or []` and `if classes:` test
Truthy(v) ==
    CASE v.t \in { "list", "obj" } -> v.a # <<>>
      [] v.t = "str"               -> v.s # <<>>
      [] v.t = "num"               -> v.s # << "0" >>
      [] OTHER                     -> FALSE

\* what str.join iterates over: a list's elements, an object's keys, a
\* string's characters
JoinItems(v) ==
    IF v.t = "str" THEN [i \in 1 .. Len(v.s) |-> JStr(<< v.s[i] >>)] ELSE v.a

\* str.join raises TypeError for a value that is not iterable and for an
\* element that is not a str
JoinRaises(v) ==
    \/ v.t = "num"
    \/ \E i \in 1 .. Len(JoinItems(v)) : JoinItems(v)[i].t # "str"

\* a slip: the comments joined like the classes
ListLine_Comma(label, sep, v) ==
    IF Truthy(v)
    THEN << label \o Join(CommaSep, [i \in 1 .. Len(JoinItems(v)) |-> JoinItems(v)[i].s]) >>
    ELSE <<>>

\* lines 40-45: the line of one list, none when the list is falsy
ListLine(label, sep, v) ==
    IF Truthy(v)
    THEN << label \o Join(sep, [i \in 1 .. Len(JoinItems(v)) |-> JoinItems(v)[i].s]) >>
    ELSE <<>>

\* lines 38-46: the lines one item adds
ItemLines(item) ==
    << ProjectLabel \o Format(item.Project), FileLabel \o Format(item.File) >>
    \o ListLine(ClassesLabel, CommaSep, item.Classes)
    \o ListLine(MethodsLabel, CommaSep, item.Methods)
    \o ListLine(CommentsLabel, PipeSep, item.Comments)
    \o << <<>> >>

\* lines 38-45: the exception one item raises, "" for none
ItemRaises(item) ==
    IF item.t # "obj" THEN "AttributeError"
    ELSE IF \E v \in { item.Classes, item.Methods, item.Comments } :
                Truthy(v) /\ JoinRaises(v)
         THEN "TypeError"
         ELSE ""

\* lines 36-47
flatten_semantic_json(d) ==
    IF d.t \notin { "list", "obj", "str" } THEN Raised("TypeError")
    ELSE IF \E i \in 1 .. Len(d.items) : ItemRaises(d.items[i]) # ""
         THEN Raised(ItemRaises(d.items[
                  CHOOSE i \in 1 .. Len(d.items) :
                      /\ ItemRaises(d.items[i]) # ""
                      /\ \A j \in 1 .. i - 1 : ItemRaises(d.items[j]) = ""]))
         ELSE Returned(Join(<< NL >>,
                  Concat([i \in 1 .. Len(d.items) |-> ItemLines(d.items[i])])))

----------------------------------------------------------------------------
(* The inputs of flatten_semantic_json *)

NameP   == << "P" >>
NameF   == << "F", ".", "c", "s" >>
NameA   == << "A" >>
NameB   == << "B" >>
NameRun == << "R", "u", "n" >>
TextC   == << "a", "a", "a" >>
TextD   == << "b", "b", "b" >>

\* objects of the shape the analyzer is to emit
FactItems ==
    { Item(p, f, cl, me, co) :
        p  \in { Missing, JStr(NameP) },
        f  \in { Missing, JStr(NameF) },
        cl \in { Missing, JList(<< JStr(NameA), JStr(NameB) >>) },
        me \in { JList(<<>>), JList(<< JStr(NameRun) >>) },
        co \in { Missing, JList(<<>>), JList(<< JStr(TextC), JStr(TextD) >>) } }

\* elements of another shape
OddItems ==
    { NonObject("num"),
      NonObject("str"),
      Item(JStr(NameP), JStr(NameF), JStr(<< "a", "b" >>), Missing, Missing),
      Item(JStr(NameP), JStr(NameF), JList(<< JNum(<< "7" >>) >>), Missing, Missing),
      Item(JStr(NameP), JStr(NameF), Missing, JNum(<< "7" >>), Missing),
      Item(JNum(<< "7" >>), JStr(NameF), Missing, Missing, Missing) }

Documents ==
    { Doc("list", its) : its \in SeqsUpTo(FactItems \cup OddItems, MaxRecords) }
    \cup { Doc("obj", <<>>), Doc("obj", << NonObject("str") >>),
           Doc("str", <<>>), Doc("str", << NonObject("str"), NonObject("str") >>),
           Doc("num", <<>>), Doc("null", <<>>) }

InitFlatten ==
    /\ re_strict \in BOOLEAN
    /\ data \in Documents
    /\ flat = NoResult
    /\ IdleChunk /\ IdleTopK /\ IdleAnalyze

\* one call flatten_semantic_json(path), the file holding data
Flatten ==
    /\ flat = NoResult
    /\ flat' = flatten_semantic_json(data)
    /\ UNCHANGED <<re_strict, data, chunkVars, topkVars, analyzeVars>>

SpecFlatten == InitFlatten /\ [][Flatten]_vars

----------------------------------------------------------------------------
(* Claims about flatten_semantic_json *)

IsStrList(v) == v.t = "list" /\ \A i \in 1 .. Len(v.a) : v.a[i].t = "str"

\* a sequence of fact-shaped records: a list of objects whose Project and
\* File are strings or absent and whose Classes, Methods and Comments are
\* lists of strings or absent
WellFormed(d) ==
    /\ d.t = "list"
    /\ \A i \in 1 .. Len(d.items) :
          LET it == d.items[i]
          IN  /\ it.t = "obj"
              /\ it.Project.t \in { "missing", "str" }
              /\ it.File.t \in { "missing", "str" }
              /\ \A v \in { it.Classes, it.Methods, it.Comments } :
                     v.t = "missing" \/ IsStrList(v)

\* C5: for a parsed input that is not a sequence of fact-shaped records the
\* call fails with MalformedFactDocument; it returns no text.
C5_MalformedFails ==
    Called(flat) /\ ~WellFormed(data) => flat = Raised("MalformedFactDocument")

\* text.split("\n")
RECURSIVE SplitLines(_)
SplitLines(t) ==
    IF \A i \in 1 .. Len(t) : t[i] # NL THEN << t >>
    ELSE LET n == CHOOSE i \in 1 .. Len(t) :
                      t[i] = NL /\ \A j \in 1 .. i - 1 : t[j] # NL
         IN  << SubSeq(t, 1, n - 1) >> \o SplitLines(SubSeq(t, n + 1, Len(t)))

RefList(label, sep, v) ==
    IF v.t = "missing" \/ v.a = <<>> THEN <<>>
    ELSE << label \o Join(sep, [i \in 1 .. Len(v.a) |-> v.a[i].s]) >>

\* the block of one record as the specification words it
RefBlock(it) ==
    << ProjectLabel \o (IF it.Project.t = "missing" THEN <<>> ELSE it.Project.s),
       FileLabel \o (IF it.File.t = "missing" THEN <<>> ELSE it.File.s) >>
    \o RefList(ClassesLabel, << ",", " " >>, it.Classes)
    \o RefList(MethodsLabel, << ",", " " >>, it.Methods)
    \o RefList(CommentsLabel, << " ", "|", " " >>, it.Comments)
    \o << <<>> >>

\* C8: for a well-formed sequence of records the text is, record by record
\* in input order, a "Project:" line, a "File:" line, a line for each of
\* Classes, Methods, Comments that is non-empty, and a blank line; a missing
\* Project or File prints as an empty string, a missing or empty list as no
\* line.
C8_Rendering ==
    Called(flat) /\ WellFormed(data) =>
        LET blocks == Concat([i \in 1 .. Len(data.items) |-> RefBlock(data.items[i])])
        IN  /\ flat.status = "ok"
            /\ IF blocks = <<>> THEN flat.value = <<>>
               ELSE SplitLines(flat.value) = blocks

\* the specification's example: one record with Project P, File F.cs,
\* Classes A and B, no methods, no comments
C8_Witness ==
    /\ data = Doc("list", << Item(JStr(<< "P" >>), JStr(<< "F", ".", "c", "s" >>),
                                  JList(<< JStr(<< "A" >>), JStr(<< "B" >>) >>),
                                  JList(<<>>), JList(<<>>)) >>)
    /\ flat = Returned(
          << "P", "r", "o", "j", "e", "c", "t", ":", " ", "P", NL,
             "F", "i", "l", "e", ":", " ", "F", ".", "c", "s", NL,
             " ", " ", "C", "l", "a", "s", "s", "e", "s", ":", " ", "A", ",", " ", "B", NL >>)

----------------------------------------------------------------------------
(* analyze *)

\* max_chars' default value, which analyze's call of basic_chunk uses
DefaultMaxChars == 1500
\* the k of analyze's call of pick_top_k
AnalyzeTopK == 8

\* str.endswith
EndsWith(t, suffix) ==
    Len(t) >= Len(suffix) /\ SubSeq(t, Len(t) - Len(suffix) + 1, Len(t)) = suffix

\* lines 126, 129: the upload's lowercased name ends in .md or .txt
IsTextName(filename) ==
    \/ EndsWith(Lower(filename), << ".", "m", "d" >>)
    \/ EndsWith(Lower(filename), << ".", "t", "x", "t" >>)

\* lines 123-133: the uploads whose chunks are gathered, in order
TextUploads(ups) == SelectSeq(ups, LAMBDA up : IsTextName(up.filename))

\* lines 123-133: doc_chunks after the loop, or the exception basic_chunk
\* raised in it
GatherChunks(ups, strict) ==
    LET texts == TextUploads(ups)
        rs    == [i \in 1 .. Len(texts) |-> basic_chunk(texts[i].body, DefaultMaxChars, strict)]
    IN  IF \E i \in 1 .. Len(rs) : rs[i].status = "raise"
        THEN Raised(rs[CHOOSE i \in 1 .. Len(rs) : rs[i].status = "raise"].exc)
        ELSE Returned(Concat([i \in 1 .. Len(rs) |-> rs[i].value]))

\* line 135: pick_top_k(sem_text, doc_chunks, k=8) if doc_chunks else []
SelectChunks(query, chunks) ==
    IF chunks # <<>> THEN pick_top_k(query, chunks, AnalyzeTopK).value ELSE <<>>

\* The fixed texts of the prompt (lines 137-153), each kept whole.
Preamble ==
    "You are a technical writer. Goal: ... Existing documentation snippets (authoritative, prefer these when conflicts arise):"
Placeholder   == "(no extra docs provided)"
SummaryHeader == "Extracted semantic summary (from code analysis):"
BeginMarker   == "---BEGIN SEMANTIC SUMMARY---"
EndMarker     == "---END SEMANTIC SUMMARY---"
TaskList      == "Tasks: 1) ... 2) ... 3) ... 4) ..."
\* a line break and the template's indentation of eight spaces
Indent == << NL, " ", " ", " ", " ", " ", " ", " ", " " >>
\* "\n\n---\n"
SnippetSep == << NL, NL, "-", "-", "-", NL >>

\* a slip: the join alone, with no placeholder for an empty selection
DocsSection_NoPlaceholder(sel) == Join(SnippetSep, sel)

\* line 141
DocsSection(sel) == IF sel # <<>> THEN Join(SnippetSep, sel) ELSE << Placeholder >>

\* lines 137-153
BuildPrompt(sem, sel) ==
    << Preamble >> \o Indent \o DocsSection(sel)
    \o << NL >> \o Indent \o << SummaryHeader >>
    \o Indent \o << BeginMarker >>
    \o Indent \o sem
    \o Indent \o << EndMarker >>
    \o << NL >> \o Indent \o << TaskList >> \o Indent

\* the steps of the handler, in the order of the code
StepOrder ==
    << "extract", "find_sln", "run_analyzer", "check_summary", "flatten",
       "gather_docs", "build_prompt", "call_ollama" >>

Step(name, ok) == [step |-> name, ok |-> ok]

\* the step went through: the handler moves on
Proceed(name, next) ==
    /\ trace' = Append(trace, Step(name, TRUE))
    /\ pc' = next
    /\ UNCHANGED response

\* the step failed: the request ends with this response
Fail(name, resp) ==
    /\ trace' = Append(trace, Step(name, FALSE))
    /\ pc' = "done"
    /\ response' = resp

\* an exception no handler of analyze catches: the framework answers 500
Unhandled == HttpError(500, "Internal Server Error")

\* lines 89-96
Extract ==
    /\ pc = "extract"
    /\ \E zip \in { "ok", "BadZipFile" } :
          IF zip = "ok" THEN Proceed("extract", "find_sln")
          ELSE Fail("extract", HttpError(400, "Invalid ZIP file"))
    /\ UNCHANGED <<re_strict, chunkVars, topkVars, flatVars, extra_docs, sem_text,
                   doc_chunks, selected, prompt>>

\* lines 98-100
FindSln ==
    /\ pc = "find_sln"
    /\ \E sln \in { "found", "none" } :
          IF sln = "found" THEN Proceed("find_sln", "run_analyzer")
          ELSE Fail("find_sln", HttpError(400, "No .sln found inside zip"))
    /\ UNCHANGED <<re_strict, chunkVars, topkVars, flatVars, extra_docs, sem_text,
                   doc_chunks, selected, prompt>>

\* what subprocess.run of the analyzer can end in
AnalyzerOutcomes == { "exit 0", "exit 1", "FileNotFoundError", "TimeoutExpired" }

\* a slip: the return code is not looked at
AnalyzerPassed_NoExitCheck(outcome) == outcome \in { "exit 0", "exit 1" }

\* lines 103-114: no exception, and returncode == 0
AnalyzerPassed(outcome) == outcome = "exit 0"

\* lines 111-114: the response to a failed run
AnalyzerError(outcome) ==
    CASE outcome = "FileNotFoundError" -> HttpError(500, "dotnet SDK not found on PATH")
      [] outcome = "TimeoutExpired"    -> Unhandled
      [] OTHER                         -> HttpError(500, "Analyzer failed")

\* lines 102-114
RunAnalyzer ==
    /\ pc = "run_analyzer"
    /\ \E outcome \in AnalyzerOutcomes :
          IF AnalyzerPassed(outcome)
          THEN /\ trace' = Append(trace, Step("run_analyzer", outcome = "exit 0"))
               /\ pc' = "check_summary"
               /\ UNCHANGED response
          ELSE Fail("run_analyzer", AnalyzerError(outcome))
    /\ UNCHANGED <<re_strict, chunkVars, topkVars, flatVars, extra_docs, sem_text,
                   doc_chunks, selected, prompt>>

\* lines 116-118
CheckSummary ==
    /\ pc = "check_summary"
    /\ \E exists \in BOOLEAN :
          IF exists THEN Proceed("check_summary", "flatten")
          ELSE Fail("check_summary",
                    HttpError(500, "semantic_summary.json not produced by analyzer"))
    /\ UNCHANGED <<re_strict, chunkVars, topkVars, flatVars, extra_docs, sem_text,
                   doc_chunks, selected, prompt>>

\* line 120
FlattenSummary ==
    /\ pc = "flatten"
    /\ LET r == flatten_semantic_json(data)
       IN  IF r.status = "ok"
           THEN Proceed("flatten", "gather_docs") /\ sem_text' = r.value
           ELSE Fail("flatten", Unhandled) /\ UNCHANGED sem_text
    /\ UNCHANGED <<re_strict, chunkVars, topkVars, flatVars, extra_docs,
                   doc_chunks, selected, prompt>>

\* lines 122-133
GatherDocs ==
    /\ pc = "gather_docs"
    /\ LET r == GatherChunks(extra_docs, re_strict)
       IN  IF r.status = "ok"
           THEN Proceed("gather_docs", "build_prompt") /\ doc_chunks' = r.value
           ELSE Fail("gather_docs", Unhandled) /\ UNCHANGED doc_chunks
    /\ UNCHANGED <<re_strict, chunkVars, topkVars, flatVars, extra_docs, sem_text,
                   selected, prompt>>

\* lines 135-153
BuildAndSelect ==
    /\ pc = "build_prompt"
    /\ selected' = SelectChunks(sem_text, doc_chunks)
    /\ prompt' = BuildPrompt(sem_text, selected')
    /\ Proceed("build_prompt", "call_ollama")
    /\ UNCHANGED <<re_strict, chunkVars, topkVars, flatVars, extra_docs, sem_text,
                   doc_chunks>>

\* line 158
OllamaFailure == HttpError(500, "Ollama call failed")

\* lines 155-160
CallOllama ==
    /\ pc = "call_ollama"
    /\ \E backend \in { "ok", "error" } :
          /\ trace' = Append(trace, Step("call_ollama", backend = "ok"))
          /\ pc' = "done"
          /\ response' = IF backend = "ok" THEN JsonMarkdown ELSE OllamaFailure
    /\ UNCHANGED <<re_strict, chunkVars, topkVars, flatVars, extra_docs, sem_text,
                   doc_chunks, selected, prompt>>

----------------------------------------------------------------------------
(* The inputs of analyze *)

Upload(name, body) == [filename |-> name, body |-> body]

FileNames ==
    { << "a", ".", "m", "d" >>, << "A", ".", "T", "X", "T" >>, << "a", ".", "p", "d", "f" >> }

Bodies ==
    { << "a", "a", "a" >>,
      << NL, NL, " " >>,
      << "#", " ", "x", NL, NL, "R", "u", "n", " ", "a", "a", "a" >> }

Uploads == { Upload(n, b) : n \in FileNames, b \in Bodies }

\* what the analyzer can leave in semantic_summary.json
Summaries ==
    { Doc("list", <<>>),
      Doc("list", << Item(JStr(NameP), JStr(NameF), Missing, JList(<< JStr(NameRun) >>),
                          JList(<< JStr(TextC), JStr(TextD) >>)) >>),
      Doc("obj", <<>>),
      Doc("num", <<>>) }

\* extra_docs is None or a list; None and the empty list read the same
InitAnalyze ==
    /\ re_strict \in BOOLEAN
    /\ data \in Summaries
    /\ flat = NotCalled
    /\ extra_docs \in SeqsUpTo(Uploads, MaxUploads)
    /\ pc = "extract"
    /\ sem_text = <<>> /\ doc_chunks = <<>> /\ selected = <<>> /\ prompt = <<>>
    /\ response = NoResponse
    /\ trace = <<>>
    /\ IdleChunk /\ IdleTopK

NextAnalyze ==
    \/ Extract
    \/ FindSln
    \/ RunAnalyzer
    \/ CheckSummary
    \/ FlattenSummary
    \/ GatherDocs
    \/ BuildAndSelect
    \/ CallOllama

SpecAnalyze == InitAnalyze /\ [][NextAnalyze]_vars

----------------------------------------------------------------------------
(* The whole module: one call of a function, or one request *)

Init == InitChunk \/ InitTopK \/ InitFlatten \/ InitAnalyze
Next == Chunk \/ PickTopK \/ Flatten \/ NextAnalyze
Spec == Init /\ [][Next]_vars

----------------------------------------------------------------------------
(* Claims about analyze *)

Done(name) == \E i \in 1 .. Len(trace) : trace[i].step = name /\ trace[i].ok

IndexOf(seq, x) == CHOOSE i \in 1 .. Len(seq) : seq[i] = x

\* the prompt's documentation section: from the end of the preamble's line
\* to the blank line in front of the summary's header
DocsOf(p) ==
    SubSeq(p, 1 + Len(Indent) + 1, IndexOf(p, SummaryHeader) - Len(Indent) - 2)

\* what stands between the two markers
BetweenMarkers(p) == SubSeq(p, IndexOf(p, BeginMarker) + 1, IndexOf(p, EndMarker) - 1)

\* the request yields no candidate segment: every upload has another name
\* than .md / .txt, or a text that chunks to nothing
NoCandidates ==
    \A i \in 1 .. Len(extra_docs) :
        \/ ~IsTextName(extra_docs[i].filename)
        \/ Segments(extra_docs[i].body, DefaultMaxChars) = <<>>

\* C6: a request with no candidate segment gets the placeholder as its
\* documentation section and the whole flattened text, unchanged, between the
\* markers; the documentation section of any prompt is the placeholder or
\* the join of one or more non-empty segments, never empty.
C6_PromptSections ==
    Done("build_prompt") =>
        /\ BetweenMarkers(prompt) = Indent \o flatten_semantic_json(data).value \o Indent
        /\ NoCandidates => DocsOf(prompt) = << Placeholder >>
        /\ \/ DocsOf(prompt) = << Placeholder >>
           \/ /\ selected # <<>>
              /\ \A i \in 1 .. Len(selected) : selected[i] # <<>>
              /\ DocsOf(prompt) = Join(SnippetSep, selected)
        /\ DocsOf(prompt) # <<>>

\* a request with facts, a text upload that chunks to nothing and an upload
\* of another type, whose prompt was built with the placeholder
C6_Witness ==
    /\ Done("build_prompt")
    /\ sem_text # <<>>
    /\ \E i \in 1 .. Len(extra_docs) : IsTextName(extra_docs[i].filename)
    /\ \E i \in 1 .. Len(extra_docs) : ~IsTextName(extra_docs[i].filename)
    /\ DocsOf(prompt) = << Placeholder >>

IsPrefix(a, b) == Len(a) <= Len(b) /\ a = SubSeq(b, 1, Len(a))

\* C10: the steps run in one fixed order; the backend is called at most
\* once and only after extraction, .sln discovery, an analyzer run with exit
\* code 0, the summary's presence and the flattening went through; a failed
\* step ends the request with an error response and no backend call; a
\* failed backend call ends it with "Ollama call failed", never a success.
C10_RequestOrder ==
    LET steps  == [i \in 1 .. Len(trace) |-> trace[i].step]
        calls  == { i \in 1 .. Len(trace) : steps[i] = "call_ollama" }
        failed == { i \in 1 .. Len(trace) : ~trace[i].ok }
    IN  /\ IsPrefix(steps, StepOrder)
        /\ Cardinality(calls) <= 1
        /\ \A i \in calls : \A j \in 1 .. i - 1 : trace[j].ok
        /\ \A i \in failed :
              /\ i = Len(trace)
              /\ pc = "done"
              /\ response.code \in { 400, 500 }
              /\ steps[i] # "call_ollama" => calls = {}
              /\ steps[i] = "call_ollama" => response = HttpError(500, "Ollama call failed")
        /\ response.code = 200 => Done("call_ollama")
        /\ pc = "done" <=> response # NoResponse

\* a request that went through every step and whose backend call failed
C10_Witness ==
    /\ pc = "done"
    /\ Len(trace) = Len(StepOrder)
    /\ ~trace[Len(trace)].ok
    /\ response = HttpError(500, "Ollama call failed")
    /\ selected # <<>>

=============================================================================
